---- MODULE Spec2Model ----
(***************************************************************************)
(* A model of the ARTRS acoustic ray tracer (Scene.py).                    *)
(*                                                                         *)
(*   Spec      : the Scene container (addSource ... clear).                *)
(*   SpecTrace : the driver Scene.Trace with its worker pool.              *)
(*   SpecRay   : the recursion Ray.Trace.                                  *)
(*   SpecScan  : the triangle scan of Ray.Trace, one triangle per step.    *)
(*   SpecSource: Source.__init__ from a data tuple, and Source.Delay.      *)
(*   SpecArray : createReceivers of CreateDataset.py.                      *)
(*   SpecPositions : RectRoom.createPositions.                             *)
(***************************************************************************)
EXTENDS Integers, Sequences, FiniteSets, TLC

VARIABLES
    scene,          \* the Scene object: sources, tris, receivers, sampRate
    fresh,          \* a second Scene object, newly constructed at each clear
    populated,      \* history: a source or receiver has been added to scene
    cleared,        \* history: clear ran on a populated scene
    opts,           \* Scene.Trace: numRaysAzimuth, numRaysPolar, duration, memChunk
    pc,             \* Scene.Trace: position of the driver
    data,           \* Scene.Trace: the channels x samples array
    channel,        \* Scene.Trace: index of the receiver being traced
    numChunks,      \* Scene.Trace: local numChunks
    chunkSize,      \* Scene.Trace: local chunkSize
    chunk,          \* Scene.Trace: loop index of the dispatch / collect loop
    workers,        \* Scene.Trace: the AsyncResult list, one slice of rays each
    taskq,          \* mp.Pool: rays handed to the pool and not yet started
    running,        \* mp.Pool: rays being traced by a worker process
    results,        \* mp.Pool: rayData of the rays that completed
    chunkBuf,       \* Scene.Trace: the list returned by get(), not yet reduced
    dispatchCount,  \* history: times each direction was handed to the pool
    addCount,       \* history: times each direction's rayData was added
    contrib,        \* history: channels that received a non-zero rayData
    numSamples,     \* Ray.Trace: parameter numSamples
    rayData,        \* Ray.Trace: the buffer shared by the recursive calls
    stack,          \* Ray.Trace: the active calls, the primary ray's first
    rpc,            \* Ray.Trace: "running", "done" (returned) or "error" (raised)
    scan,           \* Ray.Trace: the locals of the triangle scan, and its inputs
    sound,          \* a Source object, with the history of its Delay calls
    micArray,       \* createReceivers: parameters, locals and the list built
    coords          \* createPositions: parameters, the coords array, the result

sceneVars == <<scene, fresh, populated, cleared>>

traceVars == <<opts, pc, data, channel, numChunks, chunkSize, chunk, workers,
               taskq, running, results, chunkBuf, dispatchCount, addCount, contrib>>

rayVars == <<numSamples, rayData, stack, rpc>>

auxVars == <<scan, sound, micArray, coords>>

vars == <<sceneVars, traceVars, rayVars, auxVars>>

(***************************************************************************)
(* Bounds of the model.                                                    *)
(***************************************************************************)
MaxSources == 2
MaxReceivers == 2
MaxTris == 2

(***************************************************************************)
(* Small helpers.                                                          *)
(***************************************************************************)
Max(a, b) == IF a >= b THEN a ELSE b

Min(a, b) == IF a <= b THEN a ELSE b

RECURSIVE SeqMax(_)
SeqMax(s) == IF Len(s) = 1 THEN s[1] ELSE Max(s[1], SeqMax(Tail(s)))

(***************************************************************************)
(* Objects put into a Scene.  A source is seen by the Scene through its    *)
(* sampRate; a receiver and a triangle through their identity.             *)
(***************************************************************************)
SampRates == {1, 2}

SourcePool == [sampRate : SampRates]

ReceiverPool == {"left_ear", "right_ear"}

TriPool == {"wall"}

SeqsUpTo(S, n) == UNION {[1..k -> S] : k \in 0..n}

(***************************************************************************)
(* class Scene                                                             *)
(***************************************************************************)
SceneInit == [sources |-> <<>>, tris |-> <<>>, receivers |-> <<>>, sampRate |-> 0]

addSource(sc, source) ==
    [sc EXCEPT !.sources = Append(@, source),
               !.sampRate = Max(@, source.sampRate)]

RECURSIVE addSources(_, _)
addSources(sc, srcs) ==
    IF srcs = <<>> THEN sc
    ELSE addSources(addSource(sc, Head(srcs)), Tail(srcs))

addSurface(sc, surface) == [sc EXCEPT !.tris = Append(@, surface)]

addSurfaces(sc, surfaces) == [sc EXCEPT !.tris = @ \o surfaces]

addReceiver(sc, receiver) == [sc EXCEPT !.receivers = Append(@, receiver)]

addReceivers(sc, recs) == [sc EXCEPT !.receivers = @ \o recs]

clear(sc) == [sc EXCEPT !.sources = <<>>, !.receivers = <<>>]

(***************************************************************************)
(* The shape of the array Scene.Trace allocates: channels x samples.       *)
(***************************************************************************)
TraceShape(sc, duration) == <<Len(sc.receivers), sc.sampRate * duration>>

(***************************************************************************)
(* Spec: a Scene under its mutators.  `fresh' is a second Scene object     *)
(* that is constructed anew, with the triangles of `scene', at every       *)
(* clear and then receives the same additions.                             *)
(***************************************************************************)
NoOpts == [numRaysAzimuth |-> 0, numRaysPolar |-> 0, duration |-> 0, memChunk |-> 0]

TraceIdle ==
    /\ opts = NoOpts
    /\ pc = "idle"
    /\ data = <<>>
    /\ channel = 0
    /\ numChunks = 0
    /\ chunkSize = 0
    /\ chunk = 0
    /\ workers = <<>>
    /\ taskq = <<>>
    /\ running = {}
    /\ results = {}
    /\ chunkBuf = <<>>
    /\ dispatchCount = <<>>
    /\ addCount = <<>>
    /\ contrib = {}

RayIdle ==
    /\ numSamples = 0
    /\ rayData = <<>>
    /\ stack = <<>>
    /\ rpc = "idle"

ScanIdle == scan = [pc |-> "idle"]

SourceIdle == sound = [pc |-> "idle"]

ArrayIdle == micArray = [pc |-> "idle"]

PositionsIdle == coords = [pc |-> "idle"]

AuxIdle == ScanIdle /\ SourceIdle /\ ArrayIdle /\ PositionsIdle

SceneIdle ==
    /\ scene = SceneInit
    /\ fresh = SceneInit
    /\ populated = FALSE
    /\ cleared = FALSE

Init ==
    /\ scene = SceneInit
    /\ fresh = SceneInit
    /\ populated = FALSE
    /\ cleared = FALSE
    /\ TraceIdle
    /\ RayIdle
    /\ AuxIdle

AddSource ==
    /\ Len(scene.sources) < MaxSources
    /\ \E s \in SourcePool :
          /\ scene' = addSource(scene, s)
          /\ fresh' = addSource(fresh, s)
    /\ populated' = TRUE
    /\ UNCHANGED <<cleared, traceVars, rayVars, auxVars>>

AddSources ==
    /\ \E ss \in SeqsUpTo(SourcePool, MaxSources - Len(scene.sources)) :
          /\ Len(ss) >= 2
          /\ scene' = addSources(scene, ss)
          /\ fresh' = addSources(fresh, ss)
    /\ populated' = TRUE
    /\ UNCHANGED <<cleared, traceVars, rayVars, auxVars>>

AddSurface ==
    /\ Len(scene.tris) < MaxTris
    /\ \E t \in TriPool :
          /\ scene' = addSurface(scene, t)
          /\ fresh' = addSurface(fresh, t)
    /\ UNCHANGED <<populated, cleared, traceVars, rayVars, auxVars>>

AddSurfaces ==
    /\ \E ts \in SeqsUpTo(TriPool, MaxTris - Len(scene.tris)) :
          /\ Len(ts) >= 2
          /\ scene' = addSurfaces(scene, ts)
          /\ fresh' = addSurfaces(fresh, ts)
    /\ UNCHANGED <<populated, cleared, traceVars, rayVars, auxVars>>

AddReceiver ==
    /\ Len(scene.receivers) < MaxReceivers
    /\ \E r \in ReceiverPool :
          /\ scene' = addReceiver(scene, r)
          /\ fresh' = addReceiver(fresh, r)
    /\ populated' = TRUE
    /\ UNCHANGED <<cleared, traceVars, rayVars, auxVars>>

AddReceivers ==
    /\ \E rs \in SeqsUpTo(ReceiverPool, MaxReceivers - Len(scene.receivers)) :
          /\ Len(rs) >= 2
          /\ scene' = addReceivers(scene, rs)
          /\ fresh' = addReceivers(fresh, rs)
    /\ populated' = TRUE
    /\ UNCHANGED <<cleared, traceVars, rayVars, auxVars>>

Clear ==
    /\ scene' = clear(scene)
    /\ fresh' = addSurfaces(SceneInit, scene.tris)
    /\ cleared' = (cleared \/ populated)
    /\ UNCHANGED <<populated, traceVars, rayVars, auxVars>>

Next ==
    \/ AddSource
    \/ AddSources
    \/ AddSurface
    \/ AddSurfaces
    \/ AddReceiver
    \/ AddReceivers
    \/ Clear

Spec == Init /\ [][Next]_vars

(***************************************************************************)
(* C1: the effective sample rate of the Scene is the maximum sampRate of   *)
(* the sources it currently holds, and 0 when it holds none.               *)
(***************************************************************************)
SampRatesOf(sc) == [i \in 1..Len(sc.sources) |-> sc.sources[i].sampRate]

C1_SampRateIsMaxOfHeld ==
    scene.sampRate = IF scene.sources = <<>> THEN 0 ELSE SeqMax(SampRatesOf(scene))

(***************************************************************************)
(* C2: a Scene that was populated and cleared, and then given sources and  *)
(* receivers, has the same triangle, source and receiver lists and the     *)
(* same effective sample rate as a fresh Scene with the same triangles     *)
(* given the same sources and receivers, so Trace allocates the same       *)
(* output shape for both.                                                  *)
(***************************************************************************)
C2_ClearedEquivFresh ==
    (cleared /\ scene.sources # <<>> /\ scene.receivers # <<>>) =>
        /\ scene.tris = fresh.tris
        /\ scene.sources = fresh.sources
        /\ scene.receivers = fresh.receivers
        /\ scene.sampRate = fresh.sampRate
        /\ TraceShape(scene, 1) = TraceShape(fresh, 1)

(***************************************************************************)
(* Scene.Trace, the tracing driver, and the mp.Pool that runs its rays.    *)
(*                                                                         *)
(* A sample of the float32 array is a fraction num/den.  den = 0 is a      *)
(* non-finite float: num > 0 is +inf, num < 0 is -inf, num = 0 is nan      *)
(* (what numpy's division by zero produces).                               *)
(***************************************************************************)
MaxAzimuth == 2
MaxPolar == 1
MaxDuration == 1
NumProcs == 2

MemChunks == {2, 8, 12, 64}

RaySamples == {-1, 0, 1}

Sample(n) == [num |-> n, den |-> 1]

Zeros(n) == [i \in 1..n |-> Sample(0)]

Sign(n) == IF n > 0 THEN 1 ELSE IF n < 0 THEN -1 ELSE 0

Abs(n) == IF n < 0 THEN -n ELSE n

(* numpy float division x / m of a finite sample by the finite value m *)
Divide(x, m) ==
    IF m = 0 THEN [num |-> Sign(x.num), den |-> 0]
    ELSE IF m > 0 THEN [num |-> x.num, den |-> x.den * m]
    ELSE [num |-> -x.num, den |-> x.den * (-m)]

(* np.max(data[channel]) of a channel of finite samples *)
NpMax(ch) == SeqMax([i \in 1..Len(ch) |-> ch[i].num])

(* data[channel] /= np.max(data[channel]) *)
Normalize(ch) == [i \in 1..Len(ch) |-> Divide(ch[i], NpMax(ch))]

(* data[channel][:len(rayData)] += rayData *)
Accumulate(ch, buf) ==
    [i \in 1..Len(ch) |->
        IF i <= Len(buf) THEN [ch[i] EXCEPT !.num = @ + buf[i]] ELSE ch[i]]

(* locals of Scene.Trace *)
totalRays == opts.numRaysAzimuth * opts.numRaysPolar

maxSampLength == scene.sampRate * opts.duration

totalBytes == 4 * totalRays * maxSampLength

(* args[chunk*chunkSize:(chunk+1)*chunkSize], as 1-based direction indices *)
Slice(c, size, total) ==
    [i \in 1..Max(0, Min((c + 1) * size, total) - Min(c * size, total)) |->
        Min(c * size, total) + i]

Range(s) == {s[i] : i \in 1..Len(s)}

(* what traceDirection can return: numSamples float32 values; a ray adds   *)
(* only source signals to its buffer, so without sources it stays zero     *)
RayDataChoices(sc, n) ==
    IF sc.sources = <<>> THEN {[i \in 1..n |-> 0]} ELSE [1..n -> RaySamples]

(* the Scenes a Trace is started on, each built by the Scene's mutators:   *)
(* a new Scene, or one that held a source and was cleared                  *)
TraceBases == {SceneInit} \cup {clear(addSource(SceneInit, s)) : s \in SourcePool}

TraceReceivers == {<<>>, <<"left_ear">>, <<"left_ear", "right_ear">>}

TraceScenes ==
    {addReceivers(addSources(b, ss), rs) :
        b \in TraceBases, ss \in SeqsUpTo(SourcePool, 1), rs \in TraceReceivers}

TraceOptions ==
    [numRaysAzimuth : 1..MaxAzimuth, numRaysPolar : 1..MaxPolar,
     duration : 0..MaxDuration, memChunk : MemChunks]

InitTrace ==
    /\ scene \in TraceScenes
    /\ fresh = SceneInit
    /\ populated = FALSE
    /\ cleared = FALSE
    /\ opts \in TraceOptions
    /\ pc = "start"
    /\ data = <<>>
    /\ channel = 0
    /\ numChunks = 0
    /\ chunkSize = 0
    /\ chunk = 0
    /\ workers = <<>>
    /\ taskq = <<>>
    /\ running = {}
    /\ results = {}
    /\ chunkBuf = <<>>
    /\ dispatchCount = <<>>
    /\ addCount = <<>>
    /\ contrib = {}
    /\ RayIdle
    /\ AuxIdle

poolVars == <<taskq, running, results>>

(* lines 74-87: allocate data, build the directions; then the first        *)
(* receiver, or the return when there is none                              *)
TraceBegin ==
    /\ pc = "start"
    /\ data' = [c \in 1..Len(scene.receivers) |-> Zeros(maxSampLength)]
    /\ IF scene.receivers = <<>>
       THEN pc' = "done" /\ channel' = 0
       ELSE pc' = "plan" /\ channel' = 1
    /\ UNCHANGED <<sceneVars, auxVars, rayVars, opts, numChunks, chunkSize, chunk, workers, poolVars,
                   chunkBuf, dispatchCount, addCount, contrib>>

(* lines 92-97: open the pool, size the chunks.  totalRays//(numChunks-1)  *)
(* raises ZeroDivisionError when numChunks = 1                             *)
PlanChunks ==
    /\ pc = "plan"
    /\ numChunks' = (totalBytes \div opts.memChunk) + 1
    /\ IF numChunks' - 1 = 0
       THEN /\ pc' = "error"
            /\ UNCHANGED chunkSize
       ELSE /\ pc' = "dispatch"
            /\ chunkSize' = totalRays \div (numChunks' - 1)
    /\ chunk' = 0
    /\ workers' = <<>>
    /\ taskq' = <<>>
    /\ running' = {}
    /\ results' = {}
    /\ dispatchCount' = [d \in 1..totalRays |-> 0]
    /\ addCount' = [d \in 1..totalRays |-> 0]
    /\ UNCHANGED <<sceneVars, auxVars, rayVars, opts, data, channel, chunkBuf, contrib>>

(* lines 100-101: one starmap_async call; it returns at once *)
Dispatch ==
    /\ pc = "dispatch"
    /\ chunk < numChunks
    /\ LET slice == Slice(chunk, chunkSize, totalRays) IN
          /\ workers' = Append(workers, slice)
          /\ taskq' = taskq \o [i \in 1..Len(slice) |-> [ray |-> slice[i], chunk |-> chunk]]
          /\ dispatchCount' = [d \in 1..totalRays |->
                                 dispatchCount[d] + (IF d \in Range(slice) THEN 1 ELSE 0)]
    /\ IF chunk + 1 = numChunks
       THEN pc' = "collect" /\ chunk' = 0
       ELSE pc' = "dispatch" /\ chunk' = chunk + 1
    /\ UNCHANGED <<sceneVars, auxVars, rayVars, opts, data, channel, numChunks, chunkSize, running,
                   results, chunkBuf, addCount, contrib>>

(* a pool process takes the next task off the pool's queue *)
RayStart ==
    /\ pc \in {"dispatch", "collect", "reduce"}
    /\ taskq # <<>>
    /\ Cardinality(running) < NumProcs
    /\ running' = running \cup {Head(taskq)}
    /\ taskq' = Tail(taskq)
    /\ UNCHANGED <<sceneVars, auxVars, rayVars, opts, pc, data, channel, numChunks, chunkSize, chunk,
                   workers, results, chunkBuf, dispatchCount, addCount, contrib>>

(* line 364: traceDirection returns the ray's buffer *)
RayFinish ==
    /\ pc \in {"dispatch", "collect", "reduce"}
    /\ \E t \in running :
          /\ running' = running \ {t}
          /\ \E buf \in RayDataChoices(scene, maxSampLength) :
                results' = results \cup {[ray |-> t.ray, chunk |-> t.chunk,
                                           rayData |-> buf]}
    /\ UNCHANGED <<sceneVars, auxVars, rayVars, opts, pc, data, channel, numChunks, chunkSize, chunk,
                   workers, taskq, chunkBuf, dispatchCount, addCount, contrib>>

ResultOf(ray) == CHOOSE r \in results : r.ray = ray

(* line 106: workers.pop(0).get() blocks until every ray of the slice is   *)
(* done and returns their buffers in the order of the slice                *)
Get ==
    /\ pc = "collect"
    /\ chunk < numChunks
    /\ LET slice == Head(workers) IN
          /\ \A i \in 1..Len(slice) : \E r \in results : r.ray = slice[i]
          /\ chunkBuf' = [i \in 1..Len(slice) |-> ResultOf(slice[i])]
          /\ results' = {r \in results : r.ray \notin Range(slice)}
    /\ workers' = Tail(workers)
    /\ pc' = "reduce"
    /\ UNCHANGED <<sceneVars, auxVars, rayVars, opts, data, channel, numChunks, chunkSize, chunk, taskq,
                   running, dispatchCount, addCount, contrib>>

(* lines 107-110: add one rayData of the chunk into the channel *)
Reduce ==
    /\ pc = "reduce"
    /\ chunkBuf # <<>>
    /\ LET r == Head(chunkBuf) IN
          /\ data' = [data EXCEPT ![channel] = Accumulate(@, r.rayData)]
          /\ addCount' = [addCount EXCEPT ![r.ray] = @ + 1]
          /\ contrib' = IF \E i \in 1..Len(r.rayData) : r.rayData[i] # 0
                        THEN contrib \cup {channel} ELSE contrib
    /\ chunkBuf' = Tail(chunkBuf)
    /\ UNCHANGED <<sceneVars, auxVars, rayVars, opts, pc, channel, numChunks, chunkSize, chunk, workers,
                   poolVars, dispatchCount>>

(* line 118: the chunk is reduced; next get(), or leave the pool *)
ChunkDone ==
    /\ pc = "reduce"
    /\ chunkBuf = <<>>
    /\ chunk' = chunk + 1
    /\ pc' = IF chunk + 1 = numChunks THEN "normalize" ELSE "collect"
    /\ UNCHANGED <<sceneVars, auxVars, rayVars, opts, data, channel, numChunks, chunkSize, workers,
                   poolVars, chunkBuf, dispatchCount, addCount, contrib>>

(* line 120: data[channel] /= np.max(data[channel]); then the next         *)
(* receiver, or line 124: return data                                      *)
NormalizeChannel ==
    /\ pc = "normalize"
    /\ data' = [data EXCEPT ![channel] = Normalize(@)]
    /\ IF channel < Len(scene.receivers)
       THEN pc' = "plan" /\ channel' = channel + 1
       ELSE pc' = "done" /\ UNCHANGED channel
    /\ UNCHANGED <<sceneVars, auxVars, rayVars, opts, numChunks, chunkSize, chunk, workers, poolVars,
                   chunkBuf, dispatchCount, addCount, contrib>>

NextTrace ==
    \/ TraceBegin
    \/ PlanChunks
    \/ Dispatch
    \/ RayStart
    \/ RayFinish
    \/ Get
    \/ Reduce
    \/ ChunkDone
    \/ NormalizeChannel

SpecTrace == InitTrace /\ [][NextTrace]_vars

(***************************************************************************)
(* C3: for every receiver the directions are partitioned without error,    *)
(* every direction is dispatched in exactly one chunk, and every           *)
(* direction's rayData has been added into the channel exactly once when   *)
(* the channel is normalized.                                              *)
(***************************************************************************)
C3_EveryDirectionOnce ==
    /\ pc # "error"
    /\ pc \in {"collect", "reduce", "normalize"} =>
          \A d \in 1..totalRays : dispatchCount[d] = 1
    /\ pc = "normalize" => \A d \in 1..totalRays : addCount[d] = 1

(***************************************************************************)
(* C4: the chunk size chosen satisfies chunkSize * numSamples * 4 <=       *)
(* memChunk.                                                               *)
(***************************************************************************)
C4_ChunkFitsMemChunk ==
    pc \in {"dispatch", "collect", "reduce", "normalize"} =>
        chunkSize * maxSampLength * 4 <= opts.memChunk

(***************************************************************************)
(* C5: the rays of chunk k+1 are not handed to the pool before all rays of *)
(* chunk k have completed: the rays that are queued, running, or completed *)
(* but not yet reduced all belong to one chunk (which is what would keep   *)
(* their buffers within one chunk's bytes).                                *)
(***************************************************************************)
InFlight == Range(taskq) \cup running

Unreduced ==
    {[ray |-> r.ray, chunk |-> r.chunk] : r \in results \cup Range(chunkBuf)}

C5_OneChunkInFlight ==
    \A a, b \in InFlight \cup Unreduced : a.chunk = b.chunk

(***************************************************************************)
(* C6: a returned channel that accumulated a non-zero sample (here: the    *)
(* last channel of a Scene whose sampRate is that of its sources, all of   *)
(* whose directions were added once) has every sample in [-1, 1] and a     *)
(* largest absolute value of exactly 1.                                    *)
(***************************************************************************)
LastChannelComplete ==
    /\ pc = "done"
    /\ channel >= 1
    /\ scene.sampRate = (IF scene.sources = <<>> THEN 0 ELSE SeqMax(SampRatesOf(scene)))
    /\ \A d \in 1..totalRays : addCount[d] = 1

InUnitRange(x) == x.den > 0 /\ Abs(x.num) <= x.den

C6_PeakNormalized ==
    (LastChannelComplete /\ \E i \in 1..maxSampLength : data[channel][i].num # 0) =>
        /\ \A i \in 1..maxSampLength : InUnitRange(data[channel][i])
        /\ \E i \in 1..maxSampLength :
              data[channel][i].den > 0 /\ Abs(data[channel][i].num) = data[channel][i].den

(***************************************************************************)
(* C7: a channel of a Scene with sources none of whose rays accumulated a   *)
(* contribution is returned as all zeros (the normalization leaves it      *)
(* unchanged).                                                             *)
(***************************************************************************)
C7_SilentChannelZero ==
    (LastChannelComplete /\ scene.sources # <<>> /\ channel \notin contrib) =>
        data[channel] = Zeros(maxSampLength)

(***************************************************************************)
(* C8: Trace on a Scene without receivers, or with receivers and without   *)
(* sources, raises no error and returns one zero-filled (or zero-length)   *)
(* row per receiver.                                                       *)
(***************************************************************************)
C8_EmptySceneReturnsZeros ==
    (scene.receivers = <<>> \/ scene.sources = <<>>) =>
        /\ pc # "error"
        /\ pc = "done" =>
              /\ Len(data) = Len(scene.receivers)
              /\ \A c \in 1..Len(data) : data[c] = Zeros(maxSampLength)

(***************************************************************************)
(* Ray.Trace, the recursive path tracer.                                   *)
(*                                                                         *)
(* Distances are whole metres.  What Source.Intersect and Tri.Intersect    *)
(* return for a ray is an input of each call: (isIntersect, distance).     *)
(* A float gain is kept as the pair (refl, atten) standing for             *)
(* REFL_COEFF^refl * (EULER^(-ATM_ATTEN*atten))^0.5; products add the      *)
(* pairs.  A sample of rayData is the set of the terms added into it, a    *)
(* term being one source sample with its gain and where it was written.    *)
(***************************************************************************)
PROP_SPEED == 343
MAX_PATH_LEN == 50

(* int(round(n/d)) for n >= 0, d > 0: Python rounds halves to even *)
Round(n, d) ==
    LET q == n \div d
        r == n % d
    IN  IF 2 * r < d THEN q
        ELSE IF 2 * r > d THEN q + 1
        ELSE IF q % 2 = 0 THEN q ELSE q + 1

(* Source.Intersect: (False, 0), or (True, distance) of either sign *)
SrcDists == {-1, 5, 60}

SrcHitResults ==
    {[isIntersect |-> FALSE, distance |-> 0]}
        \cup {[isIntersect |-> TRUE, distance |-> d] : d \in SrcDists}

(* Tri.Intersect: (False, 0), or (True, distance) of either sign *)
TriDists == {-5, 0, 10, 15}

TriHitResults ==
    {[isIntersect |-> FALSE, distance |-> 0]}
        \cup {[isIntersect |-> TRUE, distance |-> d] : d \in TriDists}

(* the sources and triangles of the Scenes that are traced *)
RaySampRates == {100, 343}

RaySignals == {<<1>>, <<1, -1, 1>>}

RaySources == [sampRate : RaySampRates, signal : RaySignals]

RaySourceLists == {<<>>} \cup {<<s>> : s \in RaySources}

RayTriLists == {<<>>, <<"wall">>, <<"wall", "floor">>}

RaySampleCounts == {4, 16}

RayScenes == {addSurfaces(addSources(SceneInit, ss), ts) :
                 ss \in RaySourceLists, ts \in RayTriLists}

(* the float 1.0, and the gain REFL_COEFF*((EULER**(-ATM_ATTEN*totDist))**0.5) *)
UnitGain == [refl |-> 0, atten |-> 0]

ReflGain(totDist) == [refl |-> 1, atten |-> totDist]

(* float("inf") and finite values of nearDistance *)
Inf == [inf |-> TRUE, val |-> 0]

Fin(d) == [inf |-> FALSE, val |-> d]

(* nearDistance > distance *)
Greater(near, d) == near.inf \/ near.val > d

(* a variant that forgets the distance already travelled *)
hasReflection_IgnoresTravelled(nearDistance, distance) ==
    ~nearDistance.inf /\ nearDistance.val < MAX_PATH_LEN

(* nearDistance + self.distance < MAX_PATH_LEN *)
hasReflection(nearDistance, distance) ==
    ~nearDistance.inf /\ nearDistance.val + distance < MAX_PATH_LEN

(* Ray(direction, origin, distance) entering Trace with `attenuation` *)
Frame(distance, attenuation) ==
    [distance |-> distance, attenuation |-> attenuation, pos |-> "direct",
     nearDistance |-> Inf, nearThing |-> 0]

(* lines 270-276 for one source: the slice of the signal, the slice of     *)
(* rayData it is added into, and numpy's shape rule for the += of the two  *)
delaySamples(source, srcDist, distance) == Round(srcDist * source.sampRate, PROP_SPEED)

(* a variant without the MAX_PATH_LEN cutoff *)
DirectHit_NoCutoff(hit, distance) == hit.isIntersect /\ hit.distance > 0

DirectHit(hit, distance) ==
    hit.isIntersect /\ hit.distance > 0 /\ hit.distance + distance < MAX_PATH_LEN

SignalLen(srcLen, stop) ==
    IF stop >= 0 THEN Min(srcLen, stop) ELSE Max(0, srcLen + stop)

AddSignal(buf, n, source, k, srcDist, distance, depth) ==
    LET delay == delaySamples(source, srcDist, distance)
        srcLen == Len(source.signal)
        sigLen == SignalLen(srcLen, n - delay)
        lo == Min(delay, n)
        hi == Min(delay + srcLen, n)
        dstLen == Max(0, hi - lo)
        term(j) == [src |-> k, idx |-> j, amp |-> source.signal[j], depth |-> depth,
                    srcDist |-> srcDist, tot |-> srcDist + distance,
                    refl |-> 0, atten |-> srcDist + distance]
    IN  IF sigLen # dstLen /\ sigLen # 1
        THEN [error |-> TRUE, rayData |-> buf]
        ELSE [error |-> FALSE,
              rayData |-> [i \in 1..n |->
                  IF lo < i /\ i <= lo + dstLen
                  THEN buf[i] \cup {term(IF sigLen = 1 THEN 1 ELSE i - lo)}
                  ELSE buf[i]]]

(* lines 267-277: the loop over Scene.sources, from source k on *)
RECURSIVE DirectLoop(_, _, _, _, _, _, _)
DirectLoop(buf, n, sources, hits, k, distance, depth) ==
    IF k > Len(sources) THEN [error |-> FALSE, rayData |-> buf]
    ELSE IF ~DirectHit(hits[k], distance)
         THEN DirectLoop(buf, n, sources, hits, k + 1, distance, depth)
         ELSE LET r == AddSignal(buf, n, sources[k], k, hits[k].distance, distance, depth)
              IN  IF r.error THEN r
                  ELSE DirectLoop(r.rayData, n, sources, hits, k + 1, distance, depth)

(* a variant that accepts a hit at or behind the ray's origin *)
UpdateNearest_AcceptsNonPositive(near, hit, k) ==
    IF hit.isIntersect /\ Greater(near.nearDistance, hit.distance)
    THEN [nearDistance |-> Fin(hit.distance), nearThing |-> k]
    ELSE near

(* lines 286-289 for one triangle *)
UpdateNearest(near, hit, k) ==
    IF hit.isIntersect /\ Greater(near.nearDistance, hit.distance) /\ hit.distance > 0
    THEN [nearDistance |-> Fin(hit.distance), nearThing |-> k]
    ELSE near

(* lines 281-289: the loop over Scene.tris, from triangle k on *)
RECURSIVE ScanLoop(_, _, _)
ScanLoop(near, hits, k) ==
    IF k > Len(hits) THEN near
    ELSE ScanLoop(UpdateNearest(near, hits[k], k), hits, k + 1)

(* line 296: the distance of the reflected ray *)
ChildDistance(distance, nearDistance) == distance + nearDistance

(* line 303: rayData *= attenuation *)
Scale(buf, g) ==
    [i \in 1..Len(buf) |->
        {[t EXCEPT !.refl = @ + g.refl, !.atten = @ + g.atten] : t \in buf[i]}]

InitRay ==
    /\ scene \in RayScenes
    /\ fresh = SceneInit
    /\ populated = FALSE
    /\ cleared = FALSE
    /\ TraceIdle
    /\ AuxIdle
    /\ numSamples \in RaySampleCounts
    /\ rayData = [i \in 1..numSamples |-> {}]
    /\ stack = <<Frame(0, UnitGain)>>
    /\ rpc = "running"

Top == stack[Len(stack)]

SetTop(f) == [stack EXCEPT ![Len(stack)] = f]

(* lines 267-277 of the call on top of the stack *)
DirectPaths ==
    /\ rpc = "running"
    /\ Top.pos = "direct"
    /\ \E hits \in [1..Len(scene.sources) -> SrcHitResults] :
          LET r == DirectLoop(rayData, numSamples, scene.sources, hits, 1,
                              Top.distance, Len(stack) - 1)
          IN  /\ rayData' = r.rayData
              /\ rpc' = IF r.error THEN "error" ELSE "running"
              /\ stack' = IF r.error THEN stack ELSE SetTop([Top EXCEPT !.pos = "scan"])
    /\ UNCHANGED <<sceneVars, auxVars, traceVars, numSamples>>

(* lines 281-292: the triangle scan and the decision to reflect *)
ScanTris ==
    /\ rpc = "running"
    /\ Top.pos = "scan"
    /\ \E hits \in [1..Len(scene.tris) -> TriHitResults] :
          LET near == ScanLoop([nearDistance |-> Inf, nearThing |-> 0], hits, 1)
          IN  stack' = SetTop([Top EXCEPT
                  !.nearDistance = near.nearDistance,
                  !.nearThing = near.nearThing,
                  !.pos = IF hasReflection(near.nearDistance, Top.distance)
                          THEN "reflect" ELSE "attenuate"])
    /\ UNCHANGED <<sceneVars, auxVars, traceVars, numSamples, rayData, rpc>>

(* lines 294-298: the recursive call on the reflected ray *)
Reflect ==
    /\ rpc = "running"
    /\ Top.pos = "reflect"
    /\ LET totDist == Top.nearDistance.val + Top.distance IN
          stack' = Append(SetTop([Top EXCEPT !.pos = "attenuate"]),
                          Frame(ChildDistance(Top.distance, Top.nearDistance.val),
                                ReflGain(totDist)))
    /\ UNCHANGED <<sceneVars, auxVars, traceVars, numSamples, rayData, rpc>>

(* lines 302-305: apply the attenuation and return *)
Return ==
    /\ rpc = "running"
    /\ Top.pos = "attenuate"
    /\ rayData' = IF Top.attenuation # UnitGain THEN Scale(rayData, Top.attenuation)
                  ELSE rayData
    /\ stack' = SubSeq(stack, 1, Len(stack) - 1)
    /\ rpc' = IF Len(stack) = 1 THEN "done" ELSE "running"
    /\ UNCHANGED <<sceneVars, auxVars, traceVars, numSamples>>

NextRay ==
    \/ DirectPaths
    \/ ScanTris
    \/ Reflect
    \/ Return

SpecRay == InitRay /\ [][NextRay]_vars

FairSpecRay == SpecRay /\ WF_vars(NextRay)

(***************************************************************************)
(* C9: a source contribution that a ray writes after one or more           *)
(* reflections is written at the delay of the total path length from the   *)
(* receiver to the source: sample idx of the source lands at index         *)
(* round(tot / PROP_SPEED * sampRate) + idx of the buffer.                 *)
(***************************************************************************)
C9_DelayIsTotalPath ==
    \A i \in 1..Len(rayData) : \A t \in rayData[i] :
        t.depth >= 1 =>
            i = Round(t.tot * scene.sources[t.src].sampRate, PROP_SPEED) + t.idx

(***************************************************************************)
(* C10: Ray.Trace halts.  The segments the chain of calls has followed are *)
(* each eps > 0 or longer, the chain has at most ceil(MAX_PATH_LEN / eps)  *)
(* reflections, and eventually the outermost call has returned (or         *)
(* raised).                                                                *)
(***************************************************************************)
CeilDiv(a, b) == (a + b - 1) \div b

Reflections == Len(stack) - 1

Segments == [k \in 1..Reflections |-> stack[k].nearDistance.val]

RECURSIVE SeqMin(_)
SeqMin(q) == IF Len(q) = 1 THEN q[1] ELSE Min(q[1], SeqMin(Tail(q)))

ReflectionsBounded ==
    Reflections >= 1 =>
        /\ SeqMin(Segments) > 0
        /\ Reflections <= CeilDiv(MAX_PATH_LEN, SeqMin(Segments))

C10_TraceHalts == []ReflectionsBounded /\ <>(rpc \in {"done", "error"})

C10_Witness ==
    /\ rpc = "done"
    /\ \E i \in 1..Len(rayData) : \E t \in rayData[i] : t.depth = 4

(***************************************************************************)
(* C15: when the outermost call (attenuation 1.0) has returned, the        *)
(* contribution written at reflection depth k over a total path of length  *)
(* d_k carries the gain REFL_COEFF^k * exp(-ATM_ATTEN * d_k / 2); it is    *)
(* not scaled by the attenuations of deeper reflections.                   *)
(***************************************************************************)
Terms == UNION {rayData[i] : i \in 1..Len(rayData)}

C15_GainOfDepthK ==
    rpc = "done" => \A t \in Terms : t.refl = t.depth /\ t.atten = t.tot

(***************************************************************************)
(* C16: a source hit whose delaySamples is numSamples or more contributes  *)
(* nothing and raises no error, whatever the length of the source signal.  *)
(***************************************************************************)
C16_LateHitContributesNothing ==
    /\ rpc # "error"
    /\ \A t \in Terms :
          delaySamples(scene.sources[t.src], t.srcDist, t.tot - t.srcDist) < numSamples

(***************************************************************************)
(* C18: every ray on which Trace is invoked has a cumulative distance      *)
(* below MAX_PATH_LEN and above its parent's, and every contribution       *)
(* written into rayData has a total path length below MAX_PATH_LEN.        *)
(***************************************************************************)
C18_PathLengthsBelowCutoff ==
    /\ \A k \in 1..Len(stack) :
          /\ stack[k].distance < MAX_PATH_LEN
          /\ k > 1 => stack[k].distance > stack[k - 1].distance
    /\ \A t \in Terms : t.tot < MAX_PATH_LEN

C18_Witness ==
    /\ Len(stack) >= 3
    /\ \E t \in Terms : t.depth = 2 /\ t.tot = stack[3].distance + t.srcDist

(***************************************************************************)
(* SpecScan: lines 281-293 of Ray.Trace for one ray, one triangle of       *)
(* Scene.tris per step.  scan.hits[k] is what Tri.Intersect returns for    *)
(* triangle k; nearThing is the index of the triangle kept, which also     *)
(* identifies nearIntersect, as the three locals are updated by the same   *)
(* updateDistance.                                                         *)
(***************************************************************************)
MaxScanTris == 3

ScanDistances == {0, 38}

InitScan ==
    /\ SceneIdle
    /\ TraceIdle
    /\ RayIdle
    /\ SourceIdle /\ ArrayIdle /\ PositionsIdle
    /\ \E hits \in SeqsUpTo(TriHitResults, MaxScanTris), d \in ScanDistances :
          scan = [pc |-> "scan", hits |-> hits, distance |-> d, index |-> 1,
                  near |-> [nearDistance |-> Inf, nearThing |-> 0],
                  hasReflection |-> FALSE]

(* lines 282-289: one iteration of the loop over Scene.tris *)
ScanStep ==
    /\ scan.pc = "scan"
    /\ scan.index <= Len(scan.hits)
    /\ scan' = [scan EXCEPT !.near = UpdateNearest(@, scan.hits[scan.index], scan.index),
                            !.index = @ + 1]
    /\ UNCHANGED <<sceneVars, traceVars, rayVars, sound, micArray, coords>>

(* line 292, after the loop *)
ScanEnd ==
    /\ scan.pc = "scan"
    /\ scan.index > Len(scan.hits)
    /\ scan' = [scan EXCEPT !.pc = "done",
                            !.hasReflection = hasReflection(scan.near.nearDistance,
                                                            scan.distance)]
    /\ UNCHANGED <<sceneVars, traceVars, rayVars, sound, micArray, coords>>

NextScan ==
    \/ ScanStep
    \/ ScanEnd

SpecScan == InitScan /\ [][NextScan]_vars

(***************************************************************************)
(* C17: after the triangle scan the recorded nearest hit is the hit with   *)
(* the smallest strictly positive t among the triangles that report a hit  *)
(* (the first of them in list order when several share it), recorded with  *)
(* its triangle; a triangle with t <= 0 or without a hit is never the      *)
(* nearest, and when no triangle qualifies nothing is recorded and no      *)
(* reflection is spawned.                                                  *)
(***************************************************************************)
Qualifying == {k \in 1..Len(scan.hits) : scan.hits[k].isIntersect /\ scan.hits[k].distance > 0}

MaxDelays == 2

SecDen == 2

DelayArgs == 0..3

SourceSignals == {<<1>>, <<1, -2>>, <<0, 0>>, <<-1, -2>>, <<2, 1>>}

SourceRates == {1, 2, 3}

(* lines 173-175: astype("float32"), then signal /= np.max(signal) *)
SourceFromData(d) ==
    [signal |-> Normalize([i \in 1..Len(d.signal) |-> Sample(d.signal[i])]),
     sampRate |-> d.sampRate]

(* a variant that pads after the signal *)
Delay_PadsAtEnd(signal, sampRate, k) == signal \o Zeros(Round(sampRate * k, SecDen))

(* lines 186-187: np.pad(signal, pad_width=[int(round(sampRate*seconds)), 0]) *)
Delay(signal, sampRate, k) == Zeros(Round(sampRate * k, SecDen)) \o signal

InitSource ==
    /\ SceneIdle
    /\ TraceIdle
    /\ RayIdle
    /\ ScanIdle /\ ArrayIdle /\ PositionsIdle
    /\ \E d \in [signal : SourceSignals, sampRate : SourceRates] :
          sound = [pc |-> "data", data |-> d, signal |-> <<>>, sampRate |-> 0,
                   applied |-> <<>>, before |-> <<>>]

(* Source.__init__, the data tuple branch *)
Construct ==
    /\ sound.pc = "data"
    /\ sound' = [sound EXCEPT !.pc = "built",
                              !.signal = SourceFromData(sound.data).signal,
                              !.sampRate = SourceFromData(sound.data).sampRate]
    /\ UNCHANGED <<sceneVars, traceVars, rayVars, scan, micArray, coords>>

(* Source.Delay(k / SecDen) *)
ApplyDelay ==
    /\ sound.pc = "built"
    /\ Len(sound.applied) < MaxDelays
    /\ \E k \in DelayArgs :
          sound' = [sound EXCEPT !.signal = Delay(@, sound.sampRate, k),
                                 !.applied = Append(@, k),
                                 !.before = Append(@, sound.signal)]
    /\ UNCHANGED <<sceneVars, traceVars, rayVars, scan, micArray, coords>>

NextSource ==
    \/ Construct
    \/ ApplyDelay

SpecSource == InitSource /\ [][NextSource]_vars

(* the signal the j-th Delay left *)
After(j) == IF j = Len(sound.applied) THEN sound.signal ELSE sound.before[j + 1]

(* sampRate * seconds is a whole number of samples *)
WholeSamples(k) == (sound.sampRate * k) % SecDen = 0

(***************************************************************************)
(* C11, as stated: Delay(a) followed by Delay(b) leaves the signal that    *)
(* one Delay(a+b) leaves, for all non-negative a and b.                    *)
(***************************************************************************)
C11_DelaysAdd ==
    sound.pc = "built" =>
        \A j \in 1..(Len(sound.applied) - 1) :
            After(j + 1) = Delay(sound.before[j], sound.sampRate,
                                 sound.applied[j] + sound.applied[j + 1])

(***************************************************************************)
(* C11, amended: when sampRate*a and sampRate*b are whole numbers of       *)
(* samples, Delay(a) followed by Delay(b) leaves the signal that one       *)
(* Delay(a+b) leaves: sampRate*(a+b) zero samples followed by the samples  *)
(* the first Delay found, unchanged.                                       *)
(***************************************************************************)
C11_WholeDelaysAdd ==
    sound.pc = "built" =>
        \A j \in 1..(Len(sound.applied) - 1) :
            (WholeSamples(sound.applied[j]) /\ WholeSamples(sound.applied[j + 1])) =>
                LET k == sound.applied[j] + sound.applied[j + 1]
                IN  /\ After(j + 1) = Delay(sound.before[j], sound.sampRate, k)
                    /\ After(j + 1) =
                          Zeros((sound.sampRate * k) \div SecDen) \o sound.before[j]

C11_Witness ==
    /\ sound.pc = "built"
    /\ sound.data = [signal |-> <<2, 1>>, sampRate |-> 1]
    /\ sound.applied = <<2, 2>>
    /\ Len(sound.signal) = 4

(***************************************************************************)
(* C12: right after its construction from a data tuple, the signal of a    *)
(* Source has peak absolute value at most 1.0, whatever the signs of the   *)
(* input samples.                                                          *)
(***************************************************************************)
C12_PeakAtMostOne ==
    (sound.pc = "built" /\ sound.applied = <<>>) =>
        \A i \in 1..Len(sound.signal) : InUnitRange(sound.signal[i])

(***************************************************************************)
(* SpecArray: createReceivers(steering, origin, numRecs, spacing) of       *)
(* CreateDataset.py.  A vector is x, y, z over a common denominator den,   *)
(* so that the arithmetic of Geometry.Vec is exact; the steering vectors   *)
(* have a whole magnitude in the xy-plane, and spacing is spacing/SpDen.   *)
(***************************************************************************)
MaxNumRecs == 3

SpDen == 2

Spacings == {1, 2, 4}

Steerings == {[x |-> 1, y |-> 0], [x |-> 0, y |-> 2], [x |-> 3, y |-> 4], [x |-> -4, y |-> 3]}

Vec(x, y, z) == [x |-> x, y |-> y, z |-> z, den |-> 1]

Origins == {Vec(0, 0, 0), Vec(1, 2, 1)}

(* Vec.__add__, Vec.__sub__, Vec.__mul__ by the constant n/d *)
VecAdd(a, b) == [x |-> a.x * b.den + b.x * a.den, y |-> a.y * b.den + b.y * a.den,
                 z |-> a.z * b.den + b.z * a.den, den |-> a.den * b.den]

VecSub(a, b) == [x |-> a.x * b.den - b.x * a.den, y |-> a.y * b.den - b.y * a.den,
                 z |-> a.z * b.den - b.z * a.den, den |-> a.den * b.den]

VecMul(a, n, d) == [x |-> a.x * n, y |-> a.y * n, z |-> a.z * n, den |-> a.den * d]

(* Vec.mag of a vector with whole coordinates and a whole magnitude *)
Mag(v) == CHOOSE m \in 0..5 : m * m = v.x * v.x + v.y * v.y + v.z * v.z

(* Vec.unit of such a vector *)
Unit(v) == [v EXCEPT !.den = Mag(v)]

InitArray ==
    /\ SceneIdle
    /\ TraceIdle
    /\ RayIdle
    /\ ScanIdle /\ SourceIdle /\ PositionsIdle
    /\ \E st \in Steerings, o \in Origins, n \in 1..MaxNumRecs, sp \in Spacings :
          micArray = [pc |-> "start", steering |-> st, origin |-> o, numRecs |-> n,
                      spacing |-> sp, direction |-> Vec(0, 0, 0),
                      arrayLength |-> Vec(0, 0, 0), index |-> 0, receivers |-> <<>>]

(* lines 24-25: direction and arrayLength *)
ArrayBegin ==
    /\ micArray.pc = "start"
    /\ LET direction == Unit(Vec(micArray.steering.y, -micArray.steering.x, 0))
       IN  micArray' = [micArray EXCEPT
               !.pc = "place",
               !.direction = direction,
               !.arrayLength = VecMul(direction, micArray.numRecs * micArray.spacing,
                                      2 * SpDen)]
    /\ UNCHANGED <<sceneVars, traceVars, rayVars, scan, sound, coords>>

(* line 26: one element of the list comprehension *)
PlaceReceiver ==
    /\ micArray.pc = "place"
    /\ micArray.index < micArray.numRecs
    /\ micArray' = [micArray EXCEPT
           !.receivers = Append(@,
               VecSub(VecAdd(micArray.origin,
                             VecMul(micArray.direction, micArray.index, 1)),
                      micArray.arrayLength)),
           !.index = @ + 1]
    /\ UNCHANGED <<sceneVars, traceVars, rayVars, scan, sound, coords>>

(* line 27 *)
ArrayReturn ==
    /\ micArray.pc = "place"
    /\ micArray.index = micArray.numRecs
    /\ micArray' = [micArray EXCEPT !.pc = "done"]
    /\ UNCHANGED <<sceneVars, traceVars, rayVars, scan, sound, coords>>

NextArray ==
    \/ ArrayBegin
    \/ PlaceReceiver
    \/ ArrayReturn

SpecArray == InitArray /\ [][NextArray]_vars

VecEq(a, b) == a.x * b.den = b.x * a.den /\ a.y * b.den = b.y * a.den
                  /\ a.z * b.den = b.z * a.den

(* |a - b|^2 = (spacing/SpDen)^2 *)
SpacedApart(a, b, sp) ==
    LET d == VecSub(a, b)
    IN  (d.x * d.x + d.y * d.y + d.z * d.z) * SpDen * SpDen = sp * sp * d.den * d.den

(* a lies in the plane through o normal to the steering vector, at o's height *)
OnArrayLine(a, o, st) ==
    LET d == VecSub(a, o)
    IN  d.x * st.x + d.y * st.y = 0 /\ d.z = 0

(***************************************************************************)
(* C13: createReceivers returns numRecs receivers on the line through      *)
(* origin perpendicular in the xy-plane to the steering vector,            *)
(* consecutive receivers exactly `spacing' apart, and the midpoint of the  *)
(* first and the last receiver is origin.                                  *)
(***************************************************************************)
C13_ArraySpacedAndCentered ==
    micArray.pc = "done" =>
        LET recs == micArray.receivers
        IN  /\ Len(recs) = micArray.numRecs
            /\ \A i \in 1..Len(recs) :
                  OnArrayLine(recs[i], micArray.origin, micArray.steering)
            /\ \A i \in 1..(Len(recs) - 1) :
                  SpacedApart(recs[i + 1], recs[i], micArray.spacing)
            /\ VecEq(VecAdd(recs[1], recs[Len(recs)]), VecMul(micArray.origin, 2, 1))

(***************************************************************************)
(* SpecPositions: RectRoom.createPositions(numPositions, padding).         *)
(* random_sample draws multiples of 1/UDen in [0, 1); lengths are in       *)
(* quarter metres (padding = 0.25 m is 1); a height is in centimetres.     *)
(* coords.drawn keeps the z column as drawn, coords.selected the index     *)
(* used on line 358.                                                       *)
(***************************************************************************)
MaxPositions == 2

UDen == 4

Rooms == {[width |-> 8, length |-> 12]}

Padding == 1

(* np.random.normal(1.63, 0.07) and np.random.normal(1.75, 0.075) *)
Heights == <<{156, 163, 170}, {167, 175, 183}>>

Frac(n, d) == [num |-> n, den |-> d]

(* int(value) of a float that is not negative *)
ToInt(v) == v.num \div v.den

InitPositions ==
    /\ SceneIdle
    /\ TraceIdle
    /\ RayIdle
    /\ ScanIdle /\ SourceIdle /\ ArrayIdle
    /\ \E room \in Rooms, n \in 1..MaxPositions :
          coords = [pc |-> "start", room |-> room, numPositions |-> n, rows |-> <<>>,
                    drawn |-> <<>>, selected |-> <<>>]

(* line 351: np.random.random_sample(size=(numPositions, 3)) *)
Draw ==
    /\ coords.pc = "start"
    /\ \E u \in [1..coords.numPositions -> [x : 0..(UDen - 1), y : 0..(UDen - 1),
                                            z : 0..(UDen - 1)]] :
          coords' = [coords EXCEPT
              !.pc = "scale",
              !.rows = [i \in 1..coords.numPositions |->
                           [x |-> Frac(u[i].x, UDen), y |-> Frac(u[i].y, UDen),
                            z |-> Frac(u[i].z, UDen)]],
              !.drawn = [i \in 1..coords.numPositions |-> Frac(u[i].z, UDen)]]
    /\ UNCHANGED <<sceneVars, traceVars, rayVars, scan, sound, micArray>>

(* lines 352-355: x and y scaled into the padded room *)
ScaleXY ==
    /\ coords.pc = "scale"
    /\ coords' = [coords EXCEPT
           !.pc = "truncate",
           !.rows = [i \in 1..Len(coords.rows) |->
               [coords.rows[i] EXCEPT
                   !.x = Frac(@.num * (coords.room.width - 2 * Padding) + Padding * @.den,
                              @.den),
                   !.y = Frac(@.num * (coords.room.length - 2 * Padding) + Padding * @.den,
                              @.den)]]]
    /\ UNCHANGED <<sceneVars, traceVars, rayVars, scan, sound, micArray>>

(* line 357: coords[:,2] = [int(value) for value in coords[:,2]] *)
Truncate ==
    /\ coords.pc = "truncate"
    /\ coords' = [coords EXCEPT
           !.pc = "select",
           !.rows = [i \in 1..Len(coords.rows) |->
                        [coords.rows[i] EXCEPT !.z = Frac(ToInt(@), 1)]]]
    /\ UNCHANGED <<sceneVars, traceVars, rayVars, scan, sound, micArray>>

(* lines 358-359: the two normal draws of each row, indexed by int(value) *)
Select ==
    /\ coords.pc = "select"
    /\ \E h \in [1..Len(coords.rows) -> Heights[1] \X Heights[2]] :
          coords' = [coords EXCEPT
              !.pc = "done",
              !.selected = [i \in 1..Len(coords.rows) |-> ToInt(coords.rows[i].z)],
              !.rows = [i \in 1..Len(coords.rows) |->
                           [coords.rows[i] EXCEPT !.z = Frac(h[i][ToInt(@) + 1], 100)]]]
    /\ UNCHANGED <<sceneVars, traceVars, rayVars, scan, sound, micArray>>

NextPositions ==
    \/ Draw
    \/ ScaleXY
    \/ Truncate
    \/ Select

SpecPositions == InitPositions /\ [][NextPositions]_vars

(* the component a draw selects when the upper half of [0, 1) selects the  *)
(* second normal, and when the lower half does                             *)
UpperHalf(u) == IF 2 * u.num >= u.den THEN 1 ELSE 0

LowerHalf(u) == 1 - UpperHalf(u)

(***************************************************************************)
(* C14: the selector that createPositions derives from the uniform draw    *)
(* of a position picks each of the two normal components for one half of   *)
(* the draw's range.                                                       *)
(***************************************************************************)
C14_SelectorSplitsRange ==
    coords.pc = "done" =>
        \/ \A i \in 1..Len(coords.drawn) : coords.selected[i] = UpperHalf(coords.drawn[i])
        \/ \A i \in 1..Len(coords.drawn) : coords.selected[i] = LowerHalf(coords.drawn[i])

====
